---- MODULE Spec2Model ----
(***************************************************************************)
(* Model of the rejection-reconciliation middleware of the email           *)
(* assistant: PostInterruptMemoryMiddleware (email_post_interrupt.py) and  *)
(* the profile store helpers get_memory / update_memory (utils.py).        *)
(*                                                                         *)
(* The conversation history is grown by the agent, the human reviewer and  *)
(* the tool executor; the middleware hooks scan it and reconcile rejected  *)
(* tool calls against the stored user profile.                             *)
(***************************************************************************)
EXTENDS Integers, Sequences, FiniteSets, TLC

VARIABLES
    history,               \* state["messages"]: the conversation so far
    nextId,                \* next correlation id the agent will issue
    decision,              \* what the reviewer / executor did with each id
    processed_tool_calls,  \* self._processed_tool_calls (the dedup ledger)
    stores,                \* contents of the store objects
    runtime,               \* the runtime object the framework hands to hooks
    writes,                \* per id: profile writes performed on its behalf
    abandoned,             \* ids both hooks of some past turn failed on
    last,                  \* record of the latest hook invocation
    tasks                  \* the abefore_model coroutines in flight

vars == <<history, nextId, decision, processed_tool_calls, stores, runtime,
          writes, abandoned, last, tasks>>

----------------------------------------------------------------------------
(* Bounds of the model *)

MaxMsgs == 4      \* longest history explored
MaxIds == 2       \* correlation ids issued in one session
WriteCap == 2     \* the write counter saturates here

Ids == 1..MaxIds

----------------------------------------------------------------------------
(* Vocabulary taken from the program *)

\* tools handed to the agent
ToolNames == {"triage_email", "write_email", "schedule_meeting",
              "check_calendar_availability", "Question", "Done"}

\* the tools the agent calls in the main specification: one that is
\* reviewed and one that runs without review
CalledTools == {"write_email", "check_calendar_availability"}

\* self.interrupt_tools
interrupt_tools == {"write_email", "schedule_meeting", "Question"}

\* namespace = ("email_assistant", "user_profile"), key "user_preferences"
ProfileNamespace == <<"email_assistant", "user_profile">>
ProfileKey == <<ProfileNamespace, "user_preferences">>
\* another namespace a store may hold
OtherKey == <<<<"email_assistant", "triage_preferences">>, "user_preferences">>
StoreKeys == {ProfileKey, OtherKey}

Absent == << >>                    \* store.get(...) returned None
default_user_profile == <<"default_user_profile">>   \* the seed document

\* the store objects: the one the middleware was constructed with and the
\* one a deployment platform supplies
StoreIds == {"inst", "plat"}
NoStore == "None"

\* argument mappings of a tool call, as sets of key/value pairs; every tool
\* has required arguments, so an issued call carries a non-empty mapping,
\* here one that differs from call to call
EmptyArgs == {}
ArgsOf(id) == {<<"subject", id>>}

\* free-text content of a rejection (may be empty) and of an executed tool
Rationales == {"", "too formal"}
ToolOutput == "tool output"

----------------------------------------------------------------------------
(* Messages *)

NoCalls == << >>

\* AIMessage carrying tool calls
AIMessage(calls) ==
    [type |-> "ai", name |-> "", status |-> "", tool_call_id |-> 0,
     content |-> "", tool_calls |-> calls]

\* ToolMessage: the result (or the rejection) of one tool call
ToolMessage(tool, id, st, text) ==
    [type |-> "tool", name |-> tool, status |-> st, tool_call_id |-> id,
     content |-> text, tool_calls |-> NoCalls]

ToolCall(tool, id, args) == [name |-> tool, id |-> id, args |-> args]

\* hasattr(message, attr): only a ToolMessage carries status and tool_call_id,
\* only an AIMessage carries tool_calls
hasattr(m, attr) ==
    CASE attr = "status" -> m.type = "tool"
      [] attr = "tool_call_id" -> m.type = "tool"
      [] attr = "tool_calls" -> m.type = "ai"
      [] OTHER -> FALSE

isinstance_AIMessage(m) == m.type = "ai"

----------------------------------------------------------------------------
(* The runtime object *)

NoRuntime == [present |-> FALSE, has_store |-> FALSE, store |-> NoStore]
RuntimeWith(s) == [present |-> TRUE, has_store |-> TRUE, store |-> s]

\* runtime.store is None when the graph was compiled without a store
Runtimes == {NoRuntime} \cup
            {RuntimeWith(s) : s \in StoreIds \cup {NoStore}}

\* self.store, set by __init__
self_store == "inst"

\* _get_store: the runtime's store attribute when the runtime has one,
\* the instance store otherwise
get_store(rt) ==
    IF rt.present /\ rt.has_store THEN rt.store ELSE self_store

----------------------------------------------------------------------------
(* Bookkeeping of one hook invocation: the effects so far *)

\* one observable operation: a store read, a model call, a store write or a
\* ledger insertion, attributed to the tool_call_id being reconciled
Op(kind, id, store, key, doc, msg) ==
    [op |-> kind, id |-> id, store |-> store, key |-> key, doc |-> doc,
     msg |-> msg]

NoMsg == << >>

\* st: [ledger, stores, ops, raised]
Start(ledger, ss) ==
    [ledger |-> ledger, stores |-> ss, ops |-> << >>, raised |-> FALSE]

Raise(st) == [st EXCEPT !.raised = TRUE]

Log(st, o) == [st EXCEPT !.ops = Append(@, o)]

----------------------------------------------------------------------------
(* utils.py: the profile store helpers *)

LLMFail == "fail"
LLMOutcomes == {LLMFail, "ok"}

\* what the next model call of an invocation does, when the model's
\* behaviour is "the llm-th call fails" (0: none fails)
Outcome(st, llm) ==
    LET calls == Cardinality({k \in 1..Len(st.ops) : st.ops[k].op = "llm"})
    IN IF calls + 1 = llm THEN LLMFail ELSE "ok"

\* llm.invoke at temperature 0.0: result.user_preferences is a document
\* derived from the current profile in the system prompt and the feedback
\* that ends the messages
llm_invoke(current_profile, messages) ==
    <<"revised", current_profile, messages[Len(messages)]>>

\* llm.ainvoke
llm_ainvoke(current_profile, messages) ==
    <<"revised", current_profile, messages[Len(messages)]>>

\* variant: a failure of the model call is caught and ignored
update_memory_swallow(st, store, namespace, messages, outcome, id) ==
    IF store = NoStore
    THEN Raise(st)
    ELSE
      LET key == <<namespace, "user_preferences">>
          user_preferences == st.stores[store][key]
          st1 == Log(st, Op("get", id, store, key, user_preferences, NoMsg))
      IN IF user_preferences = Absent
         THEN Raise(st1)
         ELSE
           LET st2 == Log(st1, Op("llm", id, store, key, user_preferences,
                                   messages))
           IN IF outcome = LLMFail
              THEN st2
              ELSE
                LET result == llm_invoke(user_preferences, messages)
                    st3 == [st2 EXCEPT !.stores[store][key] = result]
                IN Log(st3, Op("put", id, store, key, result, NoMsg))

\* variant: the namespace argument is ignored for another one
update_memory_other_namespace(st, store, namespace, messages, outcome, id) ==
    IF store = NoStore
    THEN Raise(st)
    ELSE
      LET key == OtherKey
          user_preferences == st.stores[store][key]
          st1 == Log(st, Op("get", id, store, key, user_preferences, NoMsg))
      IN IF user_preferences = Absent
         THEN Raise(st1)
         ELSE
           LET st2 == Log(st1, Op("llm", id, store, key, user_preferences,
                                   messages))
           IN IF outcome = LLMFail
              THEN Raise(st2)
              ELSE
                LET result == llm_invoke(user_preferences, messages)
                    st3 == [st2 EXCEPT !.stores[store][key] = result]
                IN Log(st3, Op("put", id, store, key, result, NoMsg))

\* variant: an absent profile is replaced by the default document
update_memory_creates(st, store, namespace, messages, outcome, id) ==
    IF store = NoStore
    THEN Raise(st)
    ELSE
      LET key == <<namespace, "user_preferences">>
          found == st.stores[store][key]
          user_preferences == IF found = Absent THEN default_user_profile ELSE found
          st1 == Log(st, Op("get", id, store, key, found, NoMsg))
          st2 == Log(st1, Op("llm", id, store, key, user_preferences, messages))
      IN IF outcome = LLMFail
         THEN Raise(st2)
         ELSE
           LET result == llm_invoke(user_preferences, messages)
               st3 == [st2 EXCEPT !.stores[store][key] = result]
           IN Log(st3, Op("put", id, store, key, result, NoMsg))

\* update_memory(store, namespace, messages): read the profile, ask the
\* model for the updated profile, write it back. `outcome` is what the
\* model call does this time; `id` attributes the effects.
update_memory(st, store, namespace, messages, outcome, id) ==
    IF store = NoStore
    THEN Raise(st)      \* None.get: AttributeError before any read
    ELSE
      LET key == <<namespace, "user_preferences">>
          user_preferences == st.stores[store][key]
          st1 == Log(st, Op("get", id, store, key, user_preferences, NoMsg))
      IN IF user_preferences = Absent
         THEN Raise(st1)    \* None.value: AttributeError before the call
         ELSE
           LET st2 == Log(st1, Op("llm", id, store, key, user_preferences,
                                   messages))
           IN IF outcome = LLMFail
              THEN Raise(st2)
              ELSE
                LET result == llm_invoke(user_preferences, messages)
                    st3 == [st2 EXCEPT !.stores[store][key] = result]
                IN Log(st3, Op("put", id, store, key, result, NoMsg))

\* aupdate_memory: the same steps with awaited store and model calls
aupdate_memory(st, store, namespace, messages, outcome, id) ==
    IF store = NoStore
    THEN Raise(st)
    ELSE
      LET key == <<namespace, "user_preferences">>
          user_preferences == st.stores[store][key]
          st1 == Log(st, Op("get", id, store, key, user_preferences, NoMsg))
      IN IF user_preferences = Absent
         THEN Raise(st1)
         ELSE
           LET st2 == Log(st1, Op("llm", id, store, key, user_preferences,
                                   messages))
           IN IF outcome = LLMFail
              THEN Raise(st2)
              ELSE
                LET result == llm_ainvoke(user_preferences, messages)
                    st3 == [st2 EXCEPT !.stores[store][key] = result]
                IN Log(st3, Op("put", id, store, key, result, NoMsg))

----------------------------------------------------------------------------
(* email_post_interrupt.py: PostInterruptMemoryMiddleware *)

\* json.dumps(original_args, indent=2): the serialized argument mapping
json_dumps(args) == <<"json", args>>

\* variant: every tool gets the generic critique
feedback_for_generic(tool_name) ==
    [phrases |-> {"The user rejected the", "tool call", "learn from this feedback"},
     names |-> tool_name]

\* the critique chosen by tool name: the phrases its text is made of and
\* the tool name it spells out, if any
feedback_for(tool_name) ==
    CASE tool_name = "write_email" ->
           [phrases |-> {"The user rejected the", "email draft",
                         "triage criteria", "response style preferences"},
            names |-> ""]
      [] tool_name = "schedule_meeting" ->
           [phrases |-> {"The user rejected the", "meeting invitation",
                         "triage criteria", "meeting scheduling preferences"},
            names |-> ""]
      [] tool_name = "Question" ->
           [phrases |-> {"The user rejected the", "clarification question",
                         "when questions should be asked",
                         "how they should be phrased"},
            names |-> ""]
      [] OTHER ->
           [phrases |-> {"The user rejected the", "tool call",
                         "learn from this feedback"},
            names |-> tool_name]

\* the user message appended for the model
compose(tool_name, original_args, rejection_message) ==
    [role |-> "user",
     feedback |-> feedback_for(tool_name),
     tool_name |-> tool_name,
     args_str |-> json_dumps(original_args),
     rejection_context |-> IF rejection_message # ""
                           THEN <<"User's rejection reason: ", rejection_message>>
                           ELSE << >>,
     reinforcement |-> "MEMORY_UPDATE_INSTRUCTIONS_REINFORCEMENT"]

\* _update_memory_for_reject
update_memory_for_reject(st, tool_name, original_args, rejection_message, messages, rt, outcome, id) ==
    LET namespace == ProfileNamespace
        messages_for_update ==
            Append(messages, compose(tool_name, original_args, rejection_message))
        store == get_store(rt)
    IN update_memory(st, store, namespace, messages_for_update, outcome, id)

\* _aupdate_memory_for_reject
aupdate_memory_for_reject(st, tool_name, original_args, rejection_message, messages, rt, outcome, id) ==
    LET namespace == ProfileNamespace
        messages_for_update ==
            Append(messages, compose(tool_name, original_args, rejection_message))
        store == get_store(rt)
    IN aupdate_memory(st, store, namespace, messages_for_update, outcome, id)

\* variant: the id of the call is not compared
args_in_calls_no_id_test(calls, k, tool_call_id) ==
    IF k > Len(calls) THEN EmptyArgs ELSE calls[k].args

\* for tc in msg.tool_calls: the first call of the message with this id
RECURSIVE args_in_calls(_, _, _)
args_in_calls(calls, k, tool_call_id) ==
    IF k > Len(calls) THEN EmptyArgs
    ELSE IF calls[k].id = tool_call_id THEN calls[k].args
    ELSE args_in_calls(calls, k + 1, tool_call_id)

\* for msg in reversed(messages): the search for the original arguments,
\* which stops at the first message that gives a non-empty mapping
RECURSIVE original_args_of(_, _, _)
original_args_of(messages, j, tool_call_id) ==
    IF j = 0 THEN EmptyArgs
    ELSE
      LET msg == messages[j]
          found == IF isinstance_AIMessage(msg) /\ hasattr(msg, "tool_calls")
                   THEN args_in_calls(msg.tool_calls, 1, tool_call_id)
                   ELSE EmptyArgs
      IN IF found # EmptyArgs THEN found
         ELSE original_args_of(messages, j - 1, tool_call_id)

\* variant: the status of the result is not looked at
is_rejection_any_status(message) ==
    /\ hasattr(message, "status")
    /\ hasattr(message, "tool_call_id")

\* the test the loops apply to a message
is_rejection(message) ==
    /\ hasattr(message, "status")
    /\ message.status = "error"
    /\ hasattr(message, "tool_call_id")

\* before_model: for message in reversed(messages), from position i down
RECURSIVE before_model_scan(_, _, _, _, _)
before_model_scan(st, messages, i, rt, llm) ==
    IF i = 0 THEN st
    ELSE
      LET message == messages[i]
          tool_call_id == message.tool_call_id
          tool_name == message.name
          rejection_message == message.content
      IN IF /\ is_rejection(message)
            /\ tool_name \in interrupt_tools
            /\ tool_call_id \notin st.ledger
         THEN
           LET original_args == original_args_of(messages, Len(messages), tool_call_id)
               st0 == Log(st, Op("call", tool_call_id, NoStore, ProfileKey, Absent,
                                 <<tool_name, original_args, rejection_message>>))
               st1 == update_memory_for_reject(st0, tool_name, original_args,
                          rejection_message, messages, rt, Outcome(st, llm),
                          tool_call_id)
           IN IF st1.raised THEN st1
              ELSE before_model_scan(
                     Log([st1 EXCEPT !.ledger = @ \cup {tool_call_id}],
                         Op("mark", tool_call_id, NoStore, ProfileKey, Absent, NoMsg)),
                     messages, i - 1, rt, llm)
         ELSE before_model_scan(st, messages, i - 1, rt, llm)

\* variant: the ledger is not consulted, each invocation starts from an
\* empty one
before_model_fresh_ledger(ledger, ss, messages, rt, llm) ==
    before_model_scan(Start({}, ss), messages, Len(messages), rt, llm)

\* variant: the loop ends after the first rejection it reconciles
RECURSIVE before_model_scan_break(_, _, _, _, _)
before_model_scan_break(st, messages, i, rt, llm) ==
    IF i = 0 THEN st
    ELSE
      LET message == messages[i]
          tool_call_id == message.tool_call_id
      IN IF /\ is_rejection(message)
            /\ message.name \in interrupt_tools
            /\ tool_call_id \notin st.ledger
         THEN
           LET original_args == original_args_of(messages, Len(messages), tool_call_id)
               st0 == Log(st, Op("call", tool_call_id, NoStore, ProfileKey, Absent,
                                 <<message.name, original_args, message.content>>))
               st1 == update_memory_for_reject(st0, message.name, original_args,
                          message.content, messages, rt, Outcome(st, llm),
                          tool_call_id)
           IN IF st1.raised THEN st1
              ELSE Log([st1 EXCEPT !.ledger = @ \cup {tool_call_id}],
                       Op("mark", tool_call_id, NoStore, ProfileKey, Absent, NoMsg))
         ELSE before_model_scan_break(st, messages, i - 1, rt, llm)

before_model_first_only(ledger, ss, messages, rt, llm) ==
    before_model_scan_break(Start(ledger, ss), messages, Len(messages), rt, llm)

\* variant: only the newest message is looked at
before_model_newest_only(ledger, ss, messages, rt, llm) ==
    IF messages = << >> THEN Start(ledger, ss)
    ELSE LET st == before_model_scan(Start(ledger, ss),
                       <<messages[Len(messages)]>>, 1, rt, llm)
         IN st

\* variant: the history is walked from the oldest message
before_model_oldest_first(ledger, ss, messages, rt, llm) ==
    before_model_scan(Start(ledger, ss),
                      [k \in 1..Len(messages) |-> messages[Len(messages) + 1 - k]],
                      Len(messages), rt, llm)

\* variant: when an update fails, the rejections older than the failing one
\* are marked as processed
before_model_mark_older(ledger, ss, messages, rt, llm) ==
    LET r == before_model_scan(Start(ledger, ss), messages, Len(messages), rt, llm)
        older == {j \in 1..Len(messages) :
                     /\ is_rejection(messages[j])
                     /\ messages[j].name \in interrupt_tools
                     /\ \E n \in (j + 1)..Len(messages) :
                           /\ messages[n].type = "tool"
                           /\ messages[n].tool_call_id = r.ops[Len(r.ops)].id}
    IN IF r.raised
       THEN [r EXCEPT !.ledger = @ \cup {messages[j].tool_call_id : j \in older}]
       ELSE r

\* variant: the rejections are marked whether or not their update ran
before_model_mark_detected(ledger, ss, messages, rt, llm) ==
    LET r == before_model_scan(Start(ledger, ss), messages, Len(messages), rt, llm)
    IN [r EXCEPT !.ledger = @ \cup
           {messages[k].tool_call_id :
               k \in {j \in 1..Len(messages) :
                         /\ is_rejection(messages[j])
                         /\ messages[j].name \in interrupt_tools}}]

before_model(ledger, ss, messages, rt, llm) ==
    before_model_scan(Start(ledger, ss), messages, Len(messages), rt, llm)

\* after_tool: the fallback hook
RECURSIVE after_tool_scan(_, _, _, _, _)
after_tool_scan(st, messages, i, rt, llm) ==
    IF i = 0 THEN st
    ELSE
      LET message == messages[i]
          tool_call_id == message.tool_call_id
          tool_name == message.name
          rejection_message == message.content
      IN IF /\ is_rejection(message)
            /\ tool_name \in interrupt_tools
            /\ tool_call_id \notin st.ledger
         THEN
           LET original_args == original_args_of(messages, Len(messages), tool_call_id)
               st0 == Log(st, Op("call", tool_call_id, NoStore, ProfileKey, Absent,
                                 <<tool_name, original_args, rejection_message>>))
               st1 == update_memory_for_reject(st0, tool_name, original_args,
                          rejection_message, messages, rt, Outcome(st, llm),
                          tool_call_id)
           IN IF st1.raised THEN st1
              ELSE after_tool_scan(
                     Log([st1 EXCEPT !.ledger = @ \cup {tool_call_id}],
                         Op("mark", tool_call_id, NoStore, ProfileKey, Absent, NoMsg)),
                     messages, i - 1, rt, llm)
         ELSE after_tool_scan(st, messages, i - 1, rt, llm)

\* variant: a failing pass forgets what the instance had processed
after_tool_clear_on_raise(ledger, ss, messages, rt, llm) ==
    LET r == after_tool_scan(Start(ledger, ss), messages, Len(messages), rt, llm)
    IN IF r.raised THEN [r EXCEPT !.ledger = {}] ELSE r

after_tool(ledger, ss, messages, rt, llm) ==
    IF messages = << >> THEN Start(ledger, ss)
    ELSE after_tool_scan(Start(ledger, ss), messages, Len(messages), rt, llm)

\* abefore_model: the asynchronous before_model
RECURSIVE abefore_model_scan(_, _, _, _, _)
abefore_model_scan(st, messages, i, rt, llm) ==
    IF i = 0 THEN st
    ELSE
      LET message == messages[i]
          tool_call_id == message.tool_call_id
          tool_name == message.name
          rejection_message == message.content
      IN IF /\ is_rejection(message)
            /\ tool_name \in interrupt_tools
            /\ tool_call_id \notin st.ledger
         THEN
           LET original_args == original_args_of(messages, Len(messages), tool_call_id)
               st0 == Log(st, Op("call", tool_call_id, NoStore, ProfileKey, Absent,
                                 <<tool_name, original_args, rejection_message>>))
               st1 == aupdate_memory_for_reject(st0, tool_name, original_args,
                          rejection_message, messages, rt, Outcome(st, llm),
                          tool_call_id)
           IN IF st1.raised THEN st1
              ELSE abefore_model_scan(
                     Log([st1 EXCEPT !.ledger = @ \cup {tool_call_id}],
                         Op("mark", tool_call_id, NoStore, ProfileKey, Absent, NoMsg)),
                     messages, i - 1, rt, llm)
         ELSE abefore_model_scan(st, messages, i - 1, rt, llm)

abefore_model(ledger, ss, messages, rt, llm) ==
    abefore_model_scan(Start(ledger, ss), messages, Len(messages), rt, llm)

\* the class defines no asynchronous after_tool: on the asynchronous path
\* the fallback does nothing
aafter_tool(ledger, ss, messages, rt, llm) == Start(ledger, ss)

----------------------------------------------------------------------------
(* utils.py: get_memory, which seeds the profile *)

\* variant: the default is written whatever the store holds
get_memory_overwrite(ss, store, namespace, default_content) ==
    [stores |-> [ss EXCEPT ![store][<<namespace, "user_preferences">>] = default_content],
     result |-> default_content]

\* variant: the default is returned whatever the store holds
get_memory_returns_default(ss, store, namespace, default_content) ==
    LET key == <<namespace, "user_preferences">>
    IN [stores |-> IF ss[store][key] # Absent THEN ss
                   ELSE [ss EXCEPT ![store][key] = default_content],
        result |-> default_content]

\* get_memory(store, namespace, default_content): the stored document, or
\* the default after writing it when the key is absent
get_memory(ss, store, namespace, default_content) ==
    LET key == <<namespace, "user_preferences">>
        user_preferences == ss[store][key]
    IN IF user_preferences # Absent
       THEN [stores |-> ss, result |-> user_preferences]
       ELSE [stores |-> [ss EXCEPT ![store][key] = default_content],
             result |-> default_content]

\* aget_memory: the same with awaited store calls
aget_memory(ss, store, namespace, default_content) ==
    LET key == <<namespace, "user_preferences">>
        user_preferences == ss[store][key]
    IN IF user_preferences # Absent
       THEN [stores |-> ss, result |-> user_preferences]
       ELSE [stores |-> [ss EXCEPT ![store][key] = default_content],
             result |-> default_content]

----------------------------------------------------------------------------
(* State *)

Hooks == {"before_model", "after_tool", "abefore_model", "aafter_tool"}

NotIssued == [tool |-> "", verdict |-> "unissued"]

EmptyStores == [s \in StoreIds |-> [k \in StoreKeys |-> Absent]]

\* the coroutines that may run abefore_model on the one middleware
\* instance of the module-level graph
Tasks == {"a", "b"}

\* a coroutine: where it is suspended, the position of the message and the
\* id it is reconciling, the profile it read and the model's result
\* (at: the await at which it was cancelled)
IdleTask ==
    [pc |-> "idle", at |-> "", i |-> 0, id |-> 0, read |-> Absent, result |-> Absent]

\* last.both: the id this invocation, an after_tool, failed on right after
\* before_model had failed on it too (0: none)
NoHook == [hook |-> "none", raised |-> FALSE, ops |-> << >>, both |-> 0,
           pre |-> [ledger |-> {}, stores |-> EmptyStores]]

\* the state after construction: create_email_assistant builds fresh
\* stores and the middleware starts with an empty ledger
Init ==
    /\ history = << >>
    /\ nextId = 1
    /\ decision = [i \in Ids |-> NotIssued]
    /\ processed_tool_calls = {}
    /\ stores = EmptyStores
    /\ runtime \in Runtimes
    /\ writes = [i \in Ids |-> 0]
    /\ abandoned = {}
    /\ last = NoHook
    /\ tasks = [t \in Tasks |-> IdleTask]

middleware_vars == <<processed_tool_calls, stores, writes, abandoned, tasks>>

----------------------------------------------------------------------------
(* The environment: the agent, the reviewer, the tool executor *)

\* once every earlier call has its result, the model answers with a call
\* of one of `tools`, carrying a fresh correlation id
AgentCallsFrom(tools) ==
    /\ Len(history) < MaxMsgs
    /\ nextId <= MaxIds
    /\ \A i \in Ids : decision[i].verdict # "pending"
    /\ \E tool \in tools :
         /\ history' = Append(history, AIMessage(<<ToolCall(tool, nextId, ArgsOf(nextId))>>))
         /\ decision' = [decision EXCEPT ![nextId] = [tool |-> tool, verdict |-> "pending"]]
    /\ nextId' = nextId + 1
    /\ last' = NoHook
    /\ UNCHANGED <<runtime, middleware_vars>>

AgentCalls == AgentCallsFrom(CalledTools)

\* the reviewer rejects a pending interruptible call: the tool never runs
\* and a ToolMessage with status "error" carries the reviewer's text
RejectWith(texts) ==
    /\ Len(history) < MaxMsgs
    /\ \E id \in Ids, text \in texts :
         /\ decision[id].verdict = "pending"
         /\ decision[id].tool \in interrupt_tools
         /\ history' = Append(history, ToolMessage(decision[id].tool, id, "error", text))
         /\ decision' = [decision EXCEPT ![id].verdict = "rejected"]
    /\ last' = NoHook
    /\ UNCHANGED <<nextId, runtime, middleware_vars>>

Reject == RejectWith(Rationales)

\* the reviewer approves a pending interruptible call: the tool runs and
\* either returns or fails
Approve ==
    /\ Len(history) < MaxMsgs
    /\ \E id \in Ids, st \in {"success", "error"} :
         /\ decision[id].verdict = "pending"
         /\ decision[id].tool \in interrupt_tools
         /\ history' = Append(history, ToolMessage(decision[id].tool, id, st, ToolOutput))
         /\ decision' = [decision EXCEPT ![id].verdict = "approved"]
    /\ last' = NoHook
    /\ UNCHANGED <<nextId, runtime, middleware_vars>>

\* a tool that needs no review runs and either returns or fails
Execute ==
    /\ Len(history) < MaxMsgs
    /\ \E id \in Ids, st \in {"success", "error"} :
         /\ decision[id].verdict = "pending"
         /\ decision[id].tool \notin interrupt_tools
         /\ history' = Append(history, ToolMessage(decision[id].tool, id, st, ToolOutput))
         /\ decision' = [decision EXCEPT ![id].verdict = "executed"]
    /\ last' = NoHook
    /\ UNCHANGED <<nextId, runtime, middleware_vars>>

\* the framework drops the oldest message of a conversation grown long
Truncate ==
    /\ Len(history) = MaxMsgs
    /\ history' = Tail(history)
    /\ last' = NoHook
    /\ UNCHANGED <<nextId, decision, runtime, middleware_vars>>

\* the turn in which both hooks failed on an id ends
NewTurn ==
    /\ last.both # 0
    /\ abandoned' = abandoned \cup {last.both}
    /\ last' = NoHook
    /\ UNCHANGED <<history, nextId, decision, runtime, processed_tool_calls,
                   stores, writes, tasks>>

\* the stores some component holds: the one given to the middlewares and
\* the one the runtime carries
HeldStores == {self_store} \cup ({runtime.store} \cap StoreIds)

\* the profile is read (and seeded) for the prompt
GetMemory ==
    /\ \E s \in HeldStores :
         stores' = get_memory(stores, s, ProfileNamespace, default_user_profile).stores
    /\ last' = NoHook
    /\ UNCHANGED <<history, nextId, decision, runtime, processed_tool_calls,
                   writes, abandoned, tasks>>

----------------------------------------------------------------------------
(* The hooks *)

\* behaviours of the model during one invocation: which call fails
Min(a, b) == IF a < b THEN a ELSE b

\* which model call of an invocation fails (0: none).  An invocation makes
\* at most one model call per rejection whose id is not in the ledger, so
\* larger indices behave as 0
Oracles ==
    0..Min(MaxIds, Cardinality({k \in 1..Len(history) :
                                   /\ is_rejection(history[k])
                                   /\ history[k].tool_call_id \notin processed_tool_calls}))

CountPuts(ops, id) == Cardinality({k \in 1..Len(ops) : ops[k].op = "put" /\ ops[k].id = id})

\* the id a raised invocation was reconciling
FailedId(r) == r.ops[Len(r.ops)].id

\* the hooks run between the steps of the agent loop, when every tool call
\* of the last assistant message has its result
Settled == \A i \in Ids : decision[i].verdict # "pending"

\* variant: the feedback message is appended to the state's own list
InvokeExtendsHistory(hook, r) ==
    /\ processed_tool_calls' = r.ledger
    /\ stores' = r.stores
    /\ writes' = [i \in Ids |-> Min(WriteCap, writes[i] + CountPuts(r.ops, i))]
    /\ last' = [hook |-> hook, raised |-> r.raised, ops |-> r.ops, both |-> 0,
                pre |-> [ledger |-> processed_tool_calls, stores |-> stores]]
    /\ history' = IF \E k \in 1..Len(r.ops) : r.ops[k].op = "llm"
                  THEN LET k == CHOOSE j \in 1..Len(r.ops) : r.ops[j].op = "llm"
                       IN r.ops[k].msg
                  ELSE history
    /\ UNCHANGED <<nextId, decision, runtime, abandoned, tasks>>

\* the effect of one hook invocation with result r; every hook ends with
\* return None, so the framework applies no update to the messages
Invoke(hook, r) ==
    /\ processed_tool_calls' = r.ledger
    /\ stores' = r.stores
    /\ writes' = [i \in Ids |-> Min(WriteCap, writes[i] + CountPuts(r.ops, i))]
    /\ last' = [hook |-> hook, raised |-> r.raised, ops |-> r.ops,
                both |-> IF /\ hook = "after_tool" /\ r.raised
                            /\ last.hook = "before_model" /\ last.raised
                            /\ FailedId(last) = FailedId(r)
                         THEN FailedId(r) ELSE 0,
                pre |-> [ledger |-> processed_tool_calls, stores |-> stores]]
    /\ UNCHANGED <<history, nextId, decision, runtime, abandoned, tasks>>

BeforeModel ==
    /\ Settled
    /\ \E llm \in Oracles :
        \E r \in {before_model(processed_tool_calls, stores, history, runtime, llm)} :
            Invoke("before_model", r)

AfterTool ==
    /\ Settled
    /\ \E llm \in Oracles :
        \E r \in {after_tool(processed_tool_calls, stores, history, runtime, llm)} :
            Invoke("after_tool", r)

ABeforeModel ==
    /\ Settled
    /\ \E llm \in Oracles :
        \E r \in {abefore_model(processed_tool_calls, stores, history, runtime, llm)} :
            Invoke("abefore_model", r)

AAfterTool ==
    /\ Settled
    /\ \E r \in {aafter_tool(processed_tool_calls, stores, history, runtime, 0)} :
        Invoke("aafter_tool", r)

Next ==
    \/ AgentCalls
    \/ Reject
    \/ Approve
    \/ Execute
    \/ Truncate
    \/ NewTurn
    \/ GetMemory
    \/ BeforeModel
    \/ AfterTool
    \/ ABeforeModel
    \/ AAfterTool

Spec == Init /\ [][Next]_vars

\* The agent with its whole tool set, run locally (the runtime carries the
\* store the middleware was constructed with)
AgentCallsAny == AgentCallsFrom(ToolNames)

InitTools == Init /\ runtime = RuntimeWith(self_store)

NextTools ==
    \/ AgentCallsAny
    \/ Reject
    \/ Approve
    \/ Execute
    \/ GetMemory
    \/ BeforeModel
    \/ AfterTool
    \/ ABeforeModel

SpecTools == InitTools /\ [][NextTools]_vars

----------------------------------------------------------------------------
(* Reads of the stored documents: get_memory and aget_memory called with  *)
(* any namespace and any default, between the hooks                       *)

\* prompts.py holds several default documents
default_triage_instructions == <<"default_triage_instructions">>
Defaults == {default_user_profile, default_triage_instructions}

TriageNamespace == <<"email_assistant", "triage_preferences">>
Namespaces == {ProfileNamespace, TriageNamespace}

\* the record of one read: what was asked, what was returned
ReadRecord(hook, s, ns, d, r) ==
    [hook |-> hook, raised |-> FALSE,
     ops |-> <<Op("return", 0, s, <<ns, "user_preferences">>, r.result, d)>>,
     both |-> 0,
     pre |-> [ledger |-> processed_tool_calls, stores |-> stores]]

ReadProfile ==
    /\ \E s \in HeldStores, ns \in Namespaces, d \in Defaults :
         \E r \in {get_memory(stores, s, ns, d)} :
            /\ stores' = r.stores
            /\ last' = ReadRecord("get_memory", s, ns, d, r)
    /\ UNCHANGED <<history, nextId, decision, runtime, processed_tool_calls,
                   writes, abandoned, tasks>>

AReadProfile ==
    /\ \E s \in HeldStores, ns \in Namespaces, d \in Defaults :
         \E r \in {aget_memory(stores, s, ns, d)} :
            /\ stores' = r.stores
            /\ last' = ReadRecord("aget_memory", s, ns, d, r)
    /\ UNCHANGED <<history, nextId, decision, runtime, processed_tool_calls,
                   writes, abandoned, tasks>>

NextMemory ==
    \/ AgentCalls
    \/ Reject
    \/ Execute
    \/ BeforeModel
    \/ ABeforeModel
    \/ ReadProfile
    \/ AReadProfile

InitMemory == Init /\ runtime = RuntimeWith("plat")

SpecMemory == InitMemory /\ [][NextMemory]_vars

----------------------------------------------------------------------------
(* _update_memory_for_reject and _aupdate_memory_for_reject called on     *)
(* their own, with any tool name, argument mapping and rejection text     *)

\* the record of one call: its arguments, then what the updater did
CallRecord(hook, r) ==
    [hook |-> hook, raised |-> r.raised, ops |-> r.ops, both |-> 0,
     pre |-> [ledger |-> processed_tool_calls, stores |-> stores]]

Called(id, tool_name, original_args, rejection_message) ==
    Log(Start(processed_tool_calls, stores),
        Op("call", id, NoStore, ProfileKey, Absent,
           <<tool_name, original_args, rejection_message>>))

\* one call, successful or not
UpdateForReject ==
    \E id \in Ids, tool_name \in ToolNames, rejection_message \in Rationales,
       outcome \in LLMOutcomes :
      \E original_args \in {EmptyArgs, ArgsOf(id)} :
        /\ \A i \in Ids : writes[i] = 0
        /\ \E r \in {update_memory_for_reject(
                         Called(id, tool_name, original_args, rejection_message),
                         tool_name, original_args, rejection_message, history,
                         runtime, outcome, id)} :
              /\ stores' = r.stores
              /\ writes' = [writes EXCEPT ![id] = Min(WriteCap, 1)]
              /\ last' = CallRecord("_update_memory_for_reject", r)
        /\ UNCHANGED <<history, nextId, decision, runtime, processed_tool_calls,
                       abandoned, tasks>>

AUpdateForReject ==
    \E id \in Ids, tool_name \in ToolNames, rejection_message \in Rationales,
       outcome \in LLMOutcomes :
      \E original_args \in {EmptyArgs, ArgsOf(id)} :
        /\ \A i \in Ids : writes[i] = 0
        /\ \E r \in {aupdate_memory_for_reject(
                         Called(id, tool_name, original_args, rejection_message),
                         tool_name, original_args, rejection_message, history,
                         runtime, outcome, id)} :
              /\ stores' = r.stores
              /\ writes' = [writes EXCEPT ![id] = Min(WriteCap, 1)]
              /\ last' = CallRecord("_aupdate_memory_for_reject", r)
        /\ UNCHANGED <<history, nextId, decision, runtime, processed_tool_calls,
                       abandoned, tasks>>

NextCompose ==
    \/ GetMemory
    \/ UpdateForReject
    \/ AUpdateForReject

\* local testing: no runtime store, the updater uses the instance's
InitCompose == Init /\ runtime = NoRuntime

SpecCompose == InitCompose /\ [][NextCompose]_vars

----------------------------------------------------------------------------
(* abefore_model as a coroutine: it gives up control at each await (the   *)
(* store read, the model call, the store write), where other coroutines   *)
(* on the same instance run and where the hosting task may be cancelled   *)

\* variant: the write merges the new value into the document it finds
aput_merge(ss, store, key, value) == [ss EXCEPT ![store][key] = <<@, value>>]

\* store.aput(namespace, "user_preferences", value): the single-key write
aput(ss, store, key, value) == [ss EXCEPT ![store][key] = value]

\* for message in reversed(messages): the next position at or below i whose
\* message passes the tests of the loop against the ledger as it is now
RECURSIVE next_rejection(_, _, _)
next_rejection(ledger, messages, i) ==
    IF i = 0 THEN 0
    ELSE IF /\ is_rejection(messages[i])
            /\ messages[i].name \in interrupt_tools
            /\ messages[i].tool_call_id \notin ledger
         THEN i
         ELSE next_rejection(ledger, messages, i - 1)

\* the coroutine runs from position i to its next await or to its end
Advance(ledger, i) ==
    LET j == next_rejection(ledger, history, i)
    IN IF j = 0
       THEN [IdleTask EXCEPT !.pc = "done"]
       ELSE IF get_store(runtime) = NoStore
       THEN [IdleTask EXCEPT !.pc = "raised", !.id = history[j].tool_call_id]
       ELSE [IdleTask EXCEPT !.pc = "aget", !.i = j,
                             !.id = history[j].tool_call_id]

\* the feedback message of the reconciliation a coroutine is in
TaskMessage(t) ==
    LET message == history[tasks[t].i]
    IN compose(message.name,
               original_args_of(history, Len(history), message.tool_call_id),
               message.content)

Suspended == {"aget", "ainvoke", "aput", "resume"}

\* no coroutine is in flight
Quiet == \A t \in Tasks : tasks[t].pc \notin Suspended

async_unchanged == <<history, nextId, decision, runtime, abandoned, last>>

\* abefore_model is entered; the second coroutine is one that overlaps
\* the first
AStart(t) ==
    /\ Settled
    /\ tasks[t].pc \notin Suspended
    /\ t = "b" => tasks["a"].pc \in Suspended
    /\ tasks' = [tasks EXCEPT ![t] = Advance(processed_tool_calls, Len(history))]
    /\ UNCHANGED <<processed_tool_calls, stores, writes, async_unchanged>>

\* await store.aget returns; formatting the prompt fails on None
AGet(t) ==
    /\ tasks[t].pc = "aget"
    /\ LET user_preferences == stores[get_store(runtime)][ProfileKey]
       IN tasks' = [tasks EXCEPT ![t] =
                      IF user_preferences = Absent
                      THEN [@ EXCEPT !.pc = "raised", !.i = 0]
                      ELSE [@ EXCEPT !.pc = "ainvoke", !.read = user_preferences]]
    /\ UNCHANGED <<processed_tool_calls, stores, writes, async_unchanged>>

\* await llm.ainvoke returns a result or raises
AInvoke(t) ==
    /\ tasks[t].pc = "ainvoke"
    /\ \E outcome \in LLMOutcomes :
         tasks' = [tasks EXCEPT ![t] =
                     IF outcome = LLMFail
                     THEN [@ EXCEPT !.pc = "raised", !.i = 0]
                     ELSE [@ EXCEPT !.pc = "aput",
                                    !.result = llm_ainvoke(tasks[t].read,
                                                  Append(history, TaskMessage(t)))]]
    /\ UNCHANGED <<processed_tool_calls, stores, writes, async_unchanged>>

\* the write of await store.aput takes effect
APut(t) ==
    /\ tasks[t].pc = "aput"
    /\ writes[tasks[t].id] < WriteCap
    /\ stores' = aput(stores, get_store(runtime), ProfileKey, tasks[t].result)
    /\ writes' = [writes EXCEPT ![tasks[t].id] = Min(WriteCap, @ + 1)]
    /\ tasks' = [tasks EXCEPT ![t].pc = "resume"]
    /\ UNCHANGED <<processed_tool_calls, async_unchanged>>

\* the coroutine is resumed after the write: it adds the id to the ledger
\* and goes on with the loop
AResume(t) ==
    /\ tasks[t].pc = "resume"
    /\ processed_tool_calls' = processed_tool_calls \cup {tasks[t].id}
    /\ tasks' = [tasks EXCEPT ![t] =
                    Advance(processed_tool_calls \cup {tasks[t].id}, tasks[t].i - 1)]
    /\ UNCHANGED <<stores, writes, async_unchanged>>

\* the hosting task is cancelled while the coroutine is suspended
ACancel(t) ==
    /\ tasks[t].pc \in Suspended
    /\ tasks' = [tasks EXCEPT ![t].pc = "cancelled", ![t].at = tasks[t].pc,
                               ![t].i = 0]
    /\ UNCHANGED <<processed_tool_calls, stores, writes, async_unchanged>>

\* between hook runs the agent drafts another email and the reviewer
\* rejects it, saying why
Converse == Quiet /\ (AgentCallsFrom({"write_email"}) \/ RejectWith({"too formal"}))

\* between hook runs the profile is read (and seeded) from the store the
\* runtime carries
AGetMemory ==
    /\ Quiet
    /\ stores' = aget_memory(stores, get_store(runtime), ProfileNamespace,
                             default_user_profile).stores
    /\ UNCHANGED <<processed_tool_calls, writes, tasks, async_unchanged>>

NextAsync ==
    \/ Converse
    \/ AGetMemory
    \/ \E t \in Tasks : AStart(t)
    \/ \E t \in Tasks : AGet(t)
    \/ \E t \in Tasks : AInvoke(t)
    \/ \E t \in Tasks : APut(t)
    \/ \E t \in Tasks : AResume(t)
    \/ \E t \in Tasks : ACancel(t)

\* the deployed graph: the platform's store reaches the hooks in the runtime
InitAsync == Init /\ runtime = RuntimeWith("plat")

SpecAsync == InitAsync /\ [][NextAsync]_vars

----------------------------------------------------------------------------
(* Vocabulary of the properties *)

\* the hooks the class defines
RealHooks == {"before_model", "after_tool", "abefore_model"}

\* positions of the history holding an error-status result of a reviewed tool
RejectionsAt(h) ==
    {k \in 1..Len(h) : is_rejection(h[k]) /\ h[k].name \in interrupt_tools}

\* their correlation ids
RejIds(h) == {h[k].tool_call_id : k \in RejectionsAt(h)}

\* operations of the latest invocation, by kind and by id
OpsAt(kind) == {k \in 1..Len(last.ops) : last.ops[k].op = kind}
Touched(kind) == {last.ops[k].id : k \in OpsAt(kind)}
IsOf(x, o) == o.id = x
OpsOf(x) == SelectSeq(last.ops, LAMBDA o : IsOf(x, o))
KindsOf(x) == [k \in 1..Len(OpsOf(x)) |-> OpsOf(x)[k].op]

\* the order of one complete reconciliation
FullOrder == <<"call", "get", "llm", "put", "mark">>
IsPrefix(a, b) == Len(a) <= Len(b) /\ \A k \in 1..Len(a) : a[k] = b[k]

\* the argument mappings of the assistant tool calls of h that carry id x
InvokedArgs(h, x) ==
    UNION {{h[j].tool_calls[k].args :
               k \in {n \in 1..Len(h[j].tool_calls) : h[j].tool_calls[n].id = x}} :
           j \in {m \in 1..Len(h) : h[m].type = "ai"}}

----------------------------------------------------------------------------
(* C1: over any sequence of hook invocations on one instance, no          *)
(* tool_call_id has more than one profile write performed on its behalf,  *)
(* and an invocation on a history whose rejections are all in the ledger  *)
(* reads nothing, calls no model, writes nothing and leaves the ledger    *)
(* as it was.                                                             *)
C1_AtMostOneUpdate ==
    /\ \A i \in Ids : writes[i] <= 1
    /\ (last.hook \in RealHooks /\ RejIds(history) \subseteq last.pre.ledger)
          => /\ last.ops = << >>
             /\ ~last.raised
             /\ processed_tool_calls = last.pre.ledger
             /\ stores = last.pre.stores

\* a hook has run again over a history whose rejection is reconciled
C1_Witness ==
    /\ last.hook \in RealHooks
    /\ RejIds(history) # {}
    /\ RejIds(history) \subseteq last.pre.ledger
    /\ \E i \in RejIds(history) : writes[i] = 1

(* C2: an invocation in which no update fails leaves every rejection id   *)
(* of the history in the ledger, and each such id that was not there      *)
(* before caused exactly one call of the updater (one read, one model     *)
(* call, one write).                                                      *)
C2_AllRejectionsHandled ==
    (last.hook \in RealHooks /\ ~last.raised)
       => /\ RejIds(history) \subseteq processed_tool_calls
          /\ \A x \in RejIds(history) \ last.pre.ledger : KindsOf(x) = FullOrder
          /\ \A x \in last.pre.ledger : OpsOf(x) = << >>

\* one invocation has reconciled two rejections
C2_Witness ==
    /\ last.hook \in RealHooks
    /\ ~last.raised
    /\ \E x, y \in RejIds(history) :
          /\ x # y
          /\ {x, y} \cap last.pre.ledger = {}
          /\ {x, y} \subseteq processed_tool_calls
          /\ KindsOf(x) = FullOrder /\ KindsOf(y) = FullOrder

(* C3: only an error-status result of write_email, schedule_meeting or    *)
(* Question causes a store read, a model call, a store write or a ledger  *)
(* insertion; successful results and failed results of other tools cause  *)
(* none.                                                                  *)
C3_OnlyRejectedInterruptible ==
    last.hook \in RealHooks
       => /\ \A k \in 1..Len(last.ops) :
                \E j \in 1..Len(history) :
                   /\ history[j].type = "tool"
                   /\ history[j].tool_call_id = last.ops[k].id
                   /\ history[j].status = "error"
                   /\ history[j].name \in {"write_email", "schedule_meeting", "Question"}
          /\ processed_tool_calls \ last.pre.ledger \subseteq RejIds(history)

\* a hook has run over a successful result and a failed result of an
\* unreviewed tool and did nothing
C3_Witness ==
    /\ last.hook \in RealHooks
    /\ \E j \in 1..Len(history) :
          history[j].type = "tool" /\ history[j].status = "success"
    /\ \E j \in 1..Len(history) :
          /\ history[j].type = "tool" /\ history[j].status = "error"
          /\ history[j].name = "check_calendar_availability"
    /\ last.ops = << >>

(* C4: a tool call the reviewer approved never triggers a profile         *)
(* update, whatever its execution returned; only rejected calls do.       *)
C4_ApprovedNeverUpdates ==
    last.hook \in RealHooks
       => \A k \in 1..Len(last.ops) :
             decision[last.ops[k].id].verdict = "rejected"

\* an id for which the model was called and nothing was written: the
\* invocation raised on it, it is not in the ledger and the profile is as
\* it was read
C5_FailureLeavesDetected ==
    last.hook \in RealHooks
       => \A x \in Touched("llm") \ Touched("put") :
             /\ last.raised
             /\ x = FailedId(last)
             /\ x \notin processed_tool_calls
             /\ LET read == OpsOf(x)[2]
                IN read.op = "get" /\ stores[read.store][read.key] = read.doc

\* the hook invocation that follows one that failed at the model call
\* starts by calling the updater for the same id
C5_RetriedByNextHook ==
    [][(/\ last.hook \in RealHooks
        /\ last.raised
        /\ last.ops[Len(last.ops)].op = "llm"
        /\ last'.hook \in RealHooks)
          => /\ last'.ops # << >>
             /\ last'.ops[1].op = "call"
             /\ last'.ops[1].id = FailedId(last)]_vars

(* C5: when the model call made for id X fails, the invocation raises,    *)
(* nothing is written (the profile is as it was read), X is not put in    *)
(* the ledger, and the hook invocation that follows starts by calling     *)
(* the updater for X again.                                               *)
C5_FailurePropagatesAndRetries ==
    []C5_FailureLeavesDetected /\ C5_RetriedByNextHook

\* after_tool has retried, and failed at the model call again, on the id
\* before_model had just failed on
C5_Witness ==
    /\ last.both # 0
    /\ last.ops[Len(last.ops)].op = "llm"
    /\ last.both \notin processed_tool_calls

(* C6 as stated: an id both hooks of a turn failed on is never marked and *)
(* no invocation of a later turn attempts an update for it.               *)
C6_NeverResurfaced ==
    \A x \in abandoned :
        x \notin processed_tool_calls /\ x \notin Touched("call")

(* C6 amended: the two failing invocations leave the id unmarked, and in  *)
(* a later turn every invocation of a hook over a history that still      *)
(* holds the rejection attempts the update for it again, unless the       *)
(* invocation is cut short by the failure of another update or the id     *)
(* was marked meanwhile.                                                  *)
C6_ResurfacedUntilReconciled ==
    /\ last.both # 0 => last.both \notin processed_tool_calls
    /\ last.hook \in RealHooks
          => \A x \in (abandoned \cap RejIds(history)) \ last.pre.ledger :
                \/ x \in Touched("call")
                \/ last.raised /\ FailedId(last) # x

\* an id abandoned in an earlier turn has been attempted again and marked
C6_Witness ==
    /\ last.hook \in RealHooks
    /\ \E x \in abandoned :
          /\ x \in Touched("call")
          /\ x \in processed_tool_calls
          /\ x \notin last.pre.ledger

(* C7: every synchronous hook has an asynchronous counterpart that, from  *)
(* the same history, ledger and store, ends with the same ledger and the  *)
(* same stored profile.                                                   *)
C7_AsyncMirrorsSync ==
    /\ last.hook = "abefore_model"
          => \E llm \in Oracles :
                LET r == before_model(last.pre.ledger, last.pre.stores,
                                      history, runtime, llm)
                IN r.ledger = processed_tool_calls /\ r.stores = stores
    /\ last.hook = "aafter_tool"
          => \A llm \in Oracles :
                LET r == after_tool(last.pre.ledger, last.pre.stores,
                                    history, runtime, llm)
                IN r.ledger = processed_tool_calls /\ r.stores = stores

(* C8: the arguments handed to the updater for id X are those of the      *)
(* assistant tool call with id X in the history; when the history holds   *)
(* no such call they are the empty mapping and the reconciliation runs    *)
(* as usual: the updater is called and, unless it fails, X is marked.     *)
C8_ArgumentsReconstructed ==
    last.hook \in RealHooks
       => \A k \in OpsAt("call") :
             LET x == last.ops[k].id
                 args == last.ops[k].msg[2]
             IN /\ InvokedArgs(history, x) # {} => InvokedArgs(history, x) = {args}
                /\ InvokedArgs(history, x) = {}
                      => /\ args = EmptyArgs
                         /\ ~last.raised => /\ KindsOf(x) = FullOrder
                                            /\ x \in processed_tool_calls

\* a rejection whose invocation is no longer in the history has been
\* reconciled with empty arguments
C8_Witness ==
    /\ last.hook \in RealHooks
    /\ \E k \in OpsAt("call") :
          /\ InvokedArgs(history, last.ops[k].id) = {}
          /\ last.ops[k].msg[2] = EmptyArgs
          /\ last.ops[k].id \in processed_tool_calls \ last.pre.ledger

(* C9: a reconciliation uses the runtime's store when the runtime         *)
(* provides one and the instance's store otherwise, so it never has an    *)
(* absent store, also when the runtime's store attribute is None.         *)
C9_StoreNeverAbsent ==
    (last.hook \in RealHooks /\ Touched("call") # {})
       => /\ get_store(runtime) # NoStore
          /\ get_store(runtime) =
                IF runtime.present /\ runtime.has_store /\ runtime.store # NoStore
                THEN runtime.store ELSE self_store

(* C10: each reconciliation reads the store at most once and writes it at *)
(* most once, in the order read, model call, write, always under          *)
(* ("email_assistant", "user_profile") / "user_preferences"; no other key *)
(* is read or written.                                                    *)
C10_OneReadOneWriteFixedKey ==
    last.hook \in RealHooks
       => /\ \A x \in Ids : IsPrefix(KindsOf(x), FullOrder)
          /\ \A k \in OpsAt("get") \cup OpsAt("put") :
                last.ops[k].key =
                   <<<<"email_assistant", "user_profile">>, "user_preferences">>
          /\ \A s \in StoreIds : \A key \in StoreKeys \ {ProfileKey} :
                stores[s][key] = last.pre.stores[s][key]

\* a reconciliation has read, called the model and written the profile key
C10_Witness ==
    /\ last.hook \in RealHooks
    /\ \E x \in Ids :
          /\ KindsOf(x) = FullOrder
          /\ OpsOf(x)[4].key = ProfileKey
          /\ stores[OpsOf(x)[4].store][ProfileKey] # last.pre.stores[OpsOf(x)[4].store][ProfileKey]

----------------------------------------------------------------------------
(* Vocabulary of the properties about coroutines *)

\* the feedback messages the rejections of h give rise to
FeedbackMessages(h) ==
    {compose(h[k].name, original_args_of(h, Len(h), h[k].tool_call_id), h[k].content) :
        k \in RejectionsAt(h)}

\* a document that is the seed or what the model returned for a whole
\* document and one feedback message
RECURSIVE WholeDocument(_)
WholeDocument(d) ==
    \/ d = default_user_profile
    \/ /\ Len(d) = 3
       /\ d[1] = "revised"
       /\ d[3] \in FeedbackMessages(history)
       /\ WholeDocument(d[2])

\* at every moment the stored profile is absent or a whole document
C11_ProfileWhole ==
    \A s \in StoreIds :
        stores[s][ProfileKey] = Absent \/ WholeDocument(stores[s][ProfileKey])

\* a step that changes a store either seeds the profile or replaces it by
\* the result the model returned to the coroutine taking the step
C11_WriteIsModelResult ==
    [][stores' # stores
         => \/ \E s \in StoreIds :
                  /\ stores[s][ProfileKey] = Absent
                  /\ stores' = [stores EXCEPT ![s][ProfileKey] = default_user_profile]
            \/ \E t \in Tasks :
                  /\ tasks[t].pc = "aput"
                  /\ tasks[t].result =
                        llm_ainvoke(tasks[t].read, Append(history, TaskMessage(t)))
                  /\ stores' = [stores EXCEPT ![get_store(runtime)][ProfileKey] =
                                                  tasks[t].result]]_vars

\* a coroutine that ends by an exception or a cancellation changes no store
C11_AbortKeepsProfile ==
    [][\A t \in Tasks :
          (tasks[t].pc \in Suspended /\ tasks'[t].pc \in {"raised", "cancelled"})
             => stores' = stores]_vars

(* C11: when a reconciliation is aborted, before the read, during the     *)
(* model call or between the write and the mark, the stored profile is at *)
(* every moment the complete previous document or the complete document   *)
(* the model returned, never a partial or mixed one, and the abort itself *)
(* leaves the profile as it was.                                          *)
C11_AbortNeverTearsProfile ==
    []C11_ProfileWhole /\ C11_WriteIsModelResult /\ C11_AbortKeepsProfile

\* a coroutine was cancelled between its write and the mark: the profile
\* is the document the model returned to it and its id is not in the ledger
C11_Witness ==
    \E t \in Tasks :
        /\ tasks[t].pc = "cancelled"
        /\ tasks[t].at = "resume"
        /\ stores[get_store(runtime)][ProfileKey] = tasks[t].result
        /\ tasks[t].id \notin processed_tool_calls

----------------------------------------------------------------------------
(* Vocabulary of the properties about reads *)

Reads == {"get_memory", "aget_memory"}

\* the document a key held when the latest recorded operation began
Before(s, key) == last.pre.stores[s][key]

\* positions of the writes of the latest invocation
PutsAt == {k \in 1..Len(last.ops) : last.ops[k].op = "put"}

(* C12: get_memory and aget_memory on a store where the key is absent     *)
(* write the supplied default under the key and return it; where the key  *)
(* is present they return the stored document and write nothing, whatever *)
(* default is supplied; after such a call the document exists.            *)
C12_GetMemorySeedsOnce ==
    last.hook \in Reads
       => LET o == last.ops[1]
              before == Before(o.store, o.key)
          IN /\ before = Absent
                  => /\ o.doc = o.msg
                     /\ stores = [last.pre.stores EXCEPT ![o.store][o.key] = o.msg]
             /\ before # Absent
                  => /\ o.doc = before
                     /\ stores = last.pre.stores
             /\ stores[o.store][o.key] # Absent

\* the profile, revised by an update, was read with a default that differs
\* from it
C12_Witness ==
    /\ last.hook \in Reads
    /\ last.ops[1].key = ProfileKey
    /\ Before(last.ops[1].store, ProfileKey) # Absent
    /\ Before(last.ops[1].store, ProfileKey)[1] = "revised"
    /\ last.ops[1].msg # Before(last.ops[1].store, ProfileKey)

\* what the latest recorded operation did to the stores and what it read
C13_ReadsReturnStored ==
    /\ last.hook \in Reads
          => LET o == last.ops[1]
             IN Before(o.store, o.key) # Absent
                   => o.doc = Before(o.store, o.key) /\ stores = last.pre.stores
    /\ last.hook \in RealHooks
          => /\ PutsAt = {} => stores = last.pre.stores
             /\ \A k \in PutsAt :
                   (\A j \in PutsAt : j <= k)
                      => stores[last.ops[k].store][last.ops[k].key] = last.ops[k].doc
             /\ \A k \in OpsAt("get") :
                   (\A j \in OpsAt("get") : k <= j)
                      => last.ops[k].doc = Before(last.ops[k].store, last.ops[k].key)

\* a stored profile changes only in a step that performs a write of the
\* updater, and then to the document of that write
C13_OnlyUpdatesChange ==
    [][\A s \in StoreIds :
          (stores[s][ProfileKey] # Absent /\ stores'[s][ProfileKey] # stores[s][ProfileKey])
             => /\ last'.hook \in RealHooks
                /\ \E k \in 1..Len(last'.ops) :
                      /\ last'.ops[k].op = "put"
                      /\ last'.ops[k].store = s
                      /\ last'.ops[k].doc = stores'[s][ProfileKey]]_vars

(* C13: after the updater has written document D, every read of the       *)
(* profile, by get_memory or at the start of the next update, returns     *)
(* exactly D until the next successful update; reads, failed updates and  *)
(* invocations that find nothing to reconcile leave the stored document   *)
(* as it is.                                                              *)
C13_RoundTrip ==
    []C13_ReadsReturnStored /\ C13_OnlyUpdatesChange

\* an update read the document an earlier update had written and failed
\* at the model call: the stored profile is still that document
C13_Witness ==
    /\ last.hook \in RealHooks
    /\ last.raised
    /\ PutsAt = {}
    /\ OpsAt("llm") # {}
    /\ \E k \in OpsAt("get") :
          /\ last.ops[k].doc[1] = "revised"
          /\ stores[last.ops[k].store][ProfileKey] = last.ops[k].doc

----------------------------------------------------------------------------
(* Vocabulary of the properties about the feedback message *)

Composers == {"_update_memory_for_reject", "_aupdate_memory_for_reject"}

\* the message a call handed to the model last, and the call's arguments
ComposedAt(k) == last.ops[k].msg[Len(last.ops[k].msg)]
CallArgs == last.ops[1].msg

(* C14: the composed message is determined by the tool name: write_email  *)
(* gives the email-draft critique (triage criteria, response style),      *)
(* schedule_meeting the meeting critique (triage criteria, scheduling     *)
(* preferences), Question the clarification-question critique, any other  *)
(* name a generic critique naming the tool; every message holds the tool  *)
(* name, the serialized arguments and the reinforcement, and the          *)
(* reviewer's text exactly when that text is not empty.                   *)
C14_FeedbackByTool ==
    last.hook \in Composers
       => \A k \in OpsAt("llm") :
             LET m == ComposedAt(k)
                 tool_name == CallArgs[1]
             IN /\ m.role = "user"
                /\ m.tool_name = tool_name
                /\ m.args_str = json_dumps(CallArgs[2])
                /\ m.reinforcement = "MEMORY_UPDATE_INSTRUCTIONS_REINFORCEMENT"
                /\ (CallArgs[3] # "") <=> (m.rejection_context # << >>)
                /\ CallArgs[3] # "" => m.rejection_context[2] = CallArgs[3]
                /\ tool_name = "write_email"
                     => {"email draft", "triage criteria", "response style preferences"}
                           \subseteq m.feedback.phrases
                /\ tool_name = "schedule_meeting"
                     => {"meeting invitation", "triage criteria",
                         "meeting scheduling preferences"} \subseteq m.feedback.phrases
                /\ tool_name = "Question"
                     => "clarification question" \in m.feedback.phrases
                /\ tool_name \notin {"write_email", "schedule_meeting", "Question"}
                     => /\ m.feedback.names = tool_name
                        /\ m.feedback.phrases \cap {"email draft", "meeting invitation",
                                                     "clarification question"} = {}

\* the rejection of an email draft as "too formal" was composed
C14_Witness ==
    /\ last.hook \in Composers
    /\ OpsAt("llm") # {}
    /\ CallArgs[1] = "write_email"
    /\ CallArgs[3] = "too formal"
    /\ \E k \in OpsAt("llm") :
          /\ ComposedAt(k).rejection_context[2] = "too formal"
          /\ "response style preferences" \in ComposedAt(k).feedback.phrases

----------------------------------------------------------------------------
\* no step removes an id from the ledger
C15_LedgerGrows ==
    [][processed_tool_calls \subseteq processed_tool_calls']_vars

(* C15: the ledger is empty when the middleware instance is created and   *)
(* is insert-only: over any sequence of hook invocations, successful or   *)
(* failing, an id once in the ledger is in it in every later state.       *)
C15_LedgerInsertOnly ==
    processed_tool_calls = {} /\ C15_LedgerGrows

\* a hook failed on one rejection when the ledger already held another id,
\* which is still there
C15_Witness ==
    /\ last.hook \in RealHooks
    /\ last.raised
    /\ last.pre.ledger # {}
    /\ last.pre.ledger \subseteq processed_tool_calls

----------------------------------------------------------------------------
(* C16: when two hook invocations that detect the same unprocessed id     *)
(* overlap, the ledger alone keeps the updates at one per id: no two      *)
(* coroutines have each completed a profile write for the same id.        *)
C16_DedupSufficesUnderOverlap ==
    \A t, u \in Tasks :
        (t # u /\ tasks[t].pc = "resume" /\ tasks[u].pc = "resume")
           => tasks[t].id # tasks[u].id

----------------------------------------------------------------------------
----------------------------------------------------------------------------
\* the position in h of the result that carries id x
PosOf(h, x) == CHOOSE k \in 1..Len(h) : h[k].type = "tool" /\ h[k].tool_call_id = x

\* the k-th operation of the latest invocation is the first of its id
FirstOfId(k) == \A j \in 1..(k - 1) : last.ops[j].id # last.ops[k].id

(* C18: within one invocation over several unprocessed rejections the     *)
(* reconciliations run one after another, newest rejection first, and     *)
(* each reads the profile the previous one wrote: the model input of the  *)
(* k-th update holds the document stored by the (k-1)-th, so no update of *)
(* the pass is lost.                                                      *)
C18_NewestFirstChained ==
    last.hook \in RealHooks
       => /\ \A j, k \in OpsAt("call") :
                j < k => PosOf(history, last.ops[j].id) > PosOf(history, last.ops[k].id)
          /\ \A k \in 2..Len(last.ops) :
                \/ last.ops[k].id = last.ops[k - 1].id
                \/ last.ops[k - 1].op = "mark" /\ last.ops[k].op = "call" /\ FirstOfId(k)
          /\ \A k \in OpsAt("get") :
                LET earlier == {j \in OpsAt("put") : j < k}
                IN earlier # {}
                     => \E j \in earlier :
                           /\ \A n \in earlier : n <= j
                           /\ last.ops[k].doc = last.ops[j].doc
          /\ \A k \in OpsAt("llm") :
                /\ last.ops[k - 1].op = "get"
                /\ last.ops[k].doc = last.ops[k - 1].doc
          /\ \A k \in OpsAt("put") :
                /\ last.ops[k - 1].op = "llm"
                /\ last.ops[k].doc[2] = last.ops[k - 1].doc

\* two rejections were reconciled in one invocation and the stored profile
\* holds both revisions, the newer rejection's inside the older's
C18_Witness ==
    /\ last.hook \in RealHooks
    /\ ~last.raised
    /\ Cardinality(OpsAt("put")) = 2
    /\ \E j, k \in OpsAt("put") :
          /\ j < k
          /\ stores[last.ops[k].store][ProfileKey] = last.ops[k].doc
          /\ last.ops[k].doc[2] = last.ops[j].doc
          /\ PosOf(history, last.ops[j].id) > PosOf(history, last.ops[k].id)

----------------------------------------------------------------------------
\* the rejections of the history the ledger does not hold
Unprocessed == RejIds(history) \ processed_tool_calls

\* after an invocation that raised: the rejections newer than the failing
\* one are marked and written, the failing one and the older ones are not
C19_PassStopsAtFailure ==
    (last.hook \in RealHooks /\ last.raised)
       => LET f == FailedId(last)
          IN /\ f \notin processed_tool_calls
             /\ f \notin Touched("put")
             /\ \A x \in Touched("call") \ {f} :
                   /\ PosOf(history, x) > PosOf(history, f)
                   /\ KindsOf(x) = FullOrder
                   /\ x \in processed_tool_calls
                   /\ writes[x] = 1
             /\ PutsAt # {}
                   => \E k \in PutsAt :
                         /\ \A j \in PutsAt : j <= k
                         /\ stores[last.ops[k].store][ProfileKey] = last.ops[k].doc
             /\ \A y \in RejIds(history) \ last.pre.ledger :
                   PosOf(history, y) < PosOf(history, f)
                      => /\ y \notin processed_tool_calls
                         /\ OpsOf(y) = << >>
                         /\ writes[y] = 0

\* the hook invocation that follows starts with the failing rejection and
\* reaches every unprocessed one unless it fails again
C19_AllDetectedAgain ==
    [][(/\ last.hook \in RealHooks
        /\ last.raised
        /\ last'.hook \in RealHooks)
          => /\ last'.ops # << >>
             /\ last'.ops[1].op = "call"
             /\ last'.ops[1].id = FailedId(last)
             /\ \A y \in Unprocessed : y \in {last'.ops[k].id : k \in 1..Len(last'.ops)}
                                          \/ last'.raised]_vars

(* C19: when the update for one of several unprocessed rejections fails,  *)
(* the pass stops there: the newer rejections, already handled, stay      *)
(* marked with their writes kept; the failing one and every older         *)
(* unprocessed one stay unmarked and without an update; all of those are  *)
(* detected again by the next hook invocation.                            *)
C19_PartialPassKept ==
    []C19_PassStopsAtFailure /\ C19_AllDetectedAgain

\* a pass failed on the newest rejection and never reached an older
\* unprocessed one
C19_Witness ==
    /\ last.hook \in RealHooks
    /\ last.raised
    /\ \E y \in Unprocessed :
          /\ y # FailedId(last)
          /\ PosOf(history, y) < PosOf(history, FailedId(last))
          /\ OpsOf(y) = << >>

----------------------------------------------------------------------------
\* a reconciliation that reads an absent profile ends there: it raises, no
\* model call, write or mark follows, and the profile is still absent
C20_AbsentProfileFails ==
    last.hook \in RealHooks
       => \A k \in OpsAt("get") :
             last.ops[k].doc = Absent
                => /\ last.raised
                   /\ k = Len(last.ops)
                   /\ last.ops[k].id \notin processed_tool_calls
                   /\ writes[last.ops[k].id] = 0
                   /\ stores[last.ops[k].store][last.ops[k].key] = Absent

\* a profile comes into existence only by get_memory writing the default
C20_SeededOnlyByGetMemory ==
    [][\A s \in StoreIds :
          (stores[s][ProfileKey] = Absent /\ stores'[s][ProfileKey] # Absent)
             => /\ stores' = get_memory(stores, s, ProfileNamespace,
                                         default_user_profile).stores
                /\ last'.hook \notin Hooks]_vars

(* C20: the updater never creates the profile: a reconciliation run while *)
(* the profile key is absent from the store _get_store selects fails      *)
(* before the model is called, writes nothing and leaves the id unmarked; *)
(* the default document is seeded only by get_memory.                     *)
C20_UpdaterNeverCreates ==
    []C20_AbsentProfileFails /\ C20_SeededOnlyByGetMemory

\* the profile was seeded in the instance's store but the hook used the
\* runtime's store, where it is absent: the reconciliation failed at the read
C20_Witness ==
    /\ last.hook \in RealHooks
    /\ last.raised
    /\ last.ops[Len(last.ops)].op = "get"
    /\ last.ops[Len(last.ops)].doc = Absent
    /\ last.ops[Len(last.ops)].store # self_store
    /\ stores[self_store][ProfileKey] # Absent

----------------------------------------------------------------------------
(* Restart of the deployed process: agent.py is imported again, so        *)
(* create_email_assistant builds a new InMemoryStore and new middleware   *)
(* instances; the platform's store and the checkpointed conversation      *)
(* outlive the process                                                    *)

\* variant: the platform's store is lost with the process
RestartLosesStore ==
    /\ \A i \in Ids : writes[i] < WriteCap
    /\ processed_tool_calls' = {}
    /\ stores' = EmptyStores
    /\ tasks' = [t \in Tasks |-> IdleTask]
    /\ last' = NoHook
    /\ UNCHANGED <<history, nextId, decision, runtime, writes, abandoned>>

\* __init__ runs again: self._processed_tool_calls = set(), self.store is
\* a new empty InMemoryStore
Restart ==
    /\ \A i \in Ids : writes[i] < WriteCap
    /\ processed_tool_calls' = {}
    /\ stores' = [stores EXCEPT ![self_store] = [k \in StoreKeys |-> Absent]]
    /\ tasks' = [t \in Tasks |-> IdleTask]
    /\ last' = NoHook
    /\ UNCHANGED <<history, nextId, decision, runtime, writes, abandoned>>

NextRestart ==
    \/ AgentCalls
    \/ Reject
    \/ Approve
    \/ Execute
    \/ GetMemory
    \/ BeforeModel
    \/ AfterTool
    \/ ABeforeModel
    \/ Restart

\* the deployed graph: the platform supplies the runtime's store
InitRestart == Init /\ runtime = RuntimeWith("plat")

SpecRestart == InitRestart /\ [][NextRestart]_vars

\* the feedback messages composed for the rejections of id x
FeedbackOf(h, x) ==
    {compose(h[k].name, original_args_of(h, Len(h), x), h[k].content) :
        k \in {j \in RejectionsAt(h) : h[j].tool_call_id = x}}

\* how many of the revisions a document went through were made for one of
\* the feedback messages msgs
RECURSIVE Revisions(_, _)
Revisions(d, msgs) ==
    IF Len(d) = 3 /\ d[1] = "revised"
    THEN (IF d[3] \in msgs THEN 1 ELSE 0) + Revisions(d[2], msgs)
    ELSE 0

\* the ledger loses ids only by being emptied, and then the conversation
\* and the profile in the store the hooks use are as they were
C21_LedgerLostProfileKept ==
    [][(\E x \in processed_tool_calls : x \notin processed_tool_calls')
          => /\ processed_tool_calls' = {}
             /\ history' = history
             /\ stores'[get_store(runtime)] = stores[get_store(runtime)]]_vars

\* a hook invoked while the history holds a rejection that was written for
\* and is not in the ledger writes for it once more, on the profile that
\* holds the earlier revision, unless the model call fails
C21_ReconciledAgain ==
    [][\A x \in RejIds(history) :
          (/\ writes[x] >= 1
           /\ x \notin processed_tool_calls
           /\ last'.hook \in RealHooks)
             => LET s == get_store(runtime)
                    before == Revisions(stores[s][ProfileKey], FeedbackOf(history, x))
                    after == Revisions(stores'[s][ProfileKey], FeedbackOf(history, x))
                IN /\ before >= 1
                   /\ IF last'.raised
                      THEN last'.ops[Len(last'.ops)].op = "llm"
                      ELSE /\ CountPuts(last'.ops, x) = 1
                           /\ after = before + 1
                           /\ writes'[x] = Min(WriteCap, writes[x] + 1)
                           /\ x \in processed_tool_calls']_vars

(* C21: the ledger does not outlive the process while the profile and the *)
(* conversation do: after a restart a hook invocation over a history that *)
(* still holds an already reconciled rejection X reconciles X again and   *)
(* applies a second profile update for the same id on top of the first.   *)
C21_RestartRepeatsUpdate ==
    C21_LedgerLostProfileKept /\ C21_ReconciledAgain

\* after a restart a hook has written for an id a second time
C21_Witness ==
    /\ last.hook \in RealHooks
    /\ ~last.raised
    /\ \E x \in RejIds(history) \ last.pre.ledger :
          /\ writes[x] = 2
          /\ CountPuts(last.ops, x) = 1
          /\ Revisions(stores[get_store(runtime)][ProfileKey], FeedbackOf(history, x)) = 2

----------------------------------------------------------------------------
(* Sessions: the module-level graph, and so the one middleware instance   *)
(* with its one ledger, serves every conversation thread                  *)

\* the framework turns to another thread: its history is a new one and
\* its tool calls are numbered without regard to other threads; the
\* ledger and the stores belong to the instance and stay (writes and
\* decision describe the calls of the thread at hand)
NewSession ==
    /\ history # << >>
    /\ history' = << >>
    /\ \E first \in Ids : nextId' = first
    /\ decision' = [i \in Ids |-> NotIssued]
    /\ writes' = [i \in Ids |-> 0]
    /\ abandoned' = {}
    /\ last' = NoHook
    /\ UNCHANGED <<processed_tool_calls, stores, runtime, tasks>>

NextSessions ==
    \/ AgentCalls
    \/ Reject
    \/ Approve
    \/ Execute
    \/ GetMemory
    \/ BeforeModel
    \/ AfterTool
    \/ ABeforeModel
    \/ NewSession

\* run locally or deployed
InitSessions == Init /\ runtime \in {RuntimeWith(self_store), RuntimeWith("plat")}

SpecSessions == InitSessions /\ [][NextSessions]_vars

(* C22: every rejection event of every session is reconciled exactly      *)
(* once, whatever other sessions on the same instance have processed:     *)
(* after a hook invocation that did not fail, each rejection of the       *)
(* session's history has had exactly one profile write on its behalf.     *)
C22_EverySessionReconciled ==
    (last.hook \in RealHooks /\ ~last.raised)
       => \A x \in RejIds(history) : writes[x] = 1

----------------------------------------------------------------------------
\* no hook invocation, failed or not, changes the conversation
C23_HistoryUntouched ==
    [][last'.hook \in RealHooks => history' = history]_vars

\* the message list given to the updater: the whole history followed by
\* the one user message composed for the rejection being reconciled
C23_FeedbackOnCopy ==
    last.hook \in RealHooks
       => \A k \in OpsAt("llm") :
             LET m == last.ops[k].msg
             IN /\ Len(m) = Len(history) + 1
                /\ SubSeq(m, 1, Len(history)) = history
                /\ m[Len(m)].role = "user"
                /\ m[Len(m)] \in FeedbackOf(history, last.ops[k].id)

(* C23: no hook invocation changes the conversation history: the hooks    *)
(* return no state update and never append to, remove from or reorder the *)
(* message sequence; the feedback message goes to a separate copy, the    *)
(* full history followed by exactly one composed user message, whether    *)
(* the reconciliation succeeds or fails.                                  *)
C23_HooksLeaveHistory ==
    []C23_FeedbackOnCopy /\ C23_HistoryUntouched

\* one invocation has reconciled a rejection and failed on another: both
\* model calls were given the history and one more message
C23_Witness ==
    /\ last.hook \in RealHooks
    /\ last.raised
    /\ Cardinality(OpsAt("llm")) = 2
    /\ Cardinality(OpsAt("put")) = 1
    /\ \A k \in OpsAt("llm") : Len(last.ops[k].msg) = Len(history) + 1

----------------------------------------------------------------------------
(* email_genui.py: GenUIMiddleware *)

\* self.tool_to_genui_map, as create_email_assistant configures it
tool_to_genui_map ==
    [write_email |-> [component_name |-> "write_email"],
     schedule_meeting |-> [component_name |-> "schedule_meeting"],
     check_calendar_availability |-> [component_name |-> "check_calendar_availability"],
     Question |-> [component_name |-> "question"]]

\* push_ui_message(component_name, {}, metadata={"tool_call_id": id},
\* message=last_message): the UI message that is emitted
push_ui_message(component_name, tool_call_id) ==
    Op("push", tool_call_id, NoStore, << >>, <<component_name>>, NoMsg)

\* for tool_call in tool_calls: push when the tool name is in the map
RECURSIVE push_each(_, _)
push_each(tool_calls, pushed) ==
    IF tool_calls = << >> THEN pushed
    ELSE
      LET tool_call == Head(tool_calls)
      IN IF tool_call.name \in DOMAIN tool_to_genui_map
         THEN push_each(Tail(tool_calls),
                        Append(pushed,
                               push_ui_message(tool_to_genui_map[tool_call.name].component_name,
                                               tool_call.id)))
         ELSE push_each(Tail(tool_calls), pushed)

\* variant: the tool calls of every assistant message are pushed
RECURSIVE after_model_every_message(_)
after_model_every_message(messages) ==
    IF messages = << >> THEN << >>
    ELSE
      LET earlier == after_model_every_message(SubSeq(messages, 1, Len(messages) - 1))
          last_message == messages[Len(messages)]
      IN IF last_message.type # "ai" THEN earlier
         ELSE push_each(last_message.tool_calls, earlier)

\* after_model: the UI messages pushed, in order (the hook returns None)
after_model(messages) ==
    IF messages = << >> THEN << >>
    ELSE
      LET last_message == messages[Len(messages)]
      IN IF last_message.type # "ai" THEN << >>
         ELSE IF last_message.tool_calls = << >> THEN << >>
         ELSE push_each(last_message.tool_calls, << >>)

\* longest tool_calls list of one assistant message
MaxCalls == MaxIds

\* the model answers with an assistant message carrying any number of
\* tool calls, none included, numbered from nextId on
AgentCallsSeveral ==
    /\ Len(history) < MaxMsgs
    /\ \A i \in Ids : decision[i].verdict # "pending"
    /\ \E n \in 0..MaxCalls :
         /\ nextId + n - 1 <= MaxIds
         /\ \E tools \in [1..n -> ToolNames] :
              /\ history' = Append(history,
                     AIMessage([k \in 1..n |->
                                  ToolCall(tools[k], nextId + k - 1, ArgsOf(nextId + k - 1))]))
              /\ decision' = [i \in Ids |->
                                IF i \in nextId..(nextId + n - 1)
                                THEN [tool |-> tools[i - nextId + 1], verdict |-> "pending"]
                                ELSE decision[i]]
         /\ nextId' = nextId + n
    /\ last' = NoHook
    /\ UNCHANGED <<runtime, middleware_vars>>

\* GenUIMiddleware.after_model runs on the state; what it pushed is
\* recorded in last.ops
AfterModel ==
    /\ last' = [hook |-> "after_model", raised |-> FALSE,
                ops |-> after_model(history), both |-> 0,
                pre |-> [ledger |-> processed_tool_calls, stores |-> stores]]
    /\ UNCHANGED <<history, nextId, decision, runtime, middleware_vars>>

NextGenUI ==
    \/ AgentCallsSeveral
    \/ Reject
    \/ Approve
    \/ Execute
    \/ AfterModel

InitGenUI == Init /\ runtime = RuntimeWith(self_store)

SpecGenUI == InitGenUI /\ [][NextGenUI]_vars

\* positions, in the tool_calls of the last message, of the calls whose
\* tool has a component
MappedCalls(h) ==
    {k \in 1..Len(h[Len(h)].tool_calls) :
        h[Len(h)].tool_calls[k].name \in
            {"write_email", "schedule_meeting", "check_calendar_availability", "Question"}}

\* what after_model pushed: nothing unless the history ends with an
\* assistant message; otherwise one UI message per mapped tool call of
\* that message, in the order of the calls, with the component and the id
C24_PushesForLastMessage ==
    last.hook = "after_model"
       => /\ ~last.raised
          /\ IF history = << >> THEN last.ops = << >>
             ELSE IF history[Len(history)].type # "ai" THEN last.ops = << >>
             ELSE
               LET calls == history[Len(history)].tool_calls
               IN /\ Len(last.ops) = Cardinality(MappedCalls(history))
                  /\ \E f \in [1..Len(last.ops) -> MappedCalls(history)] :
                        /\ \A i, j \in 1..Len(last.ops) : i < j => f[i] < f[j]
                        /\ \A j \in 1..Len(last.ops) :
                              /\ last.ops[j].op = "push"
                              /\ last.ops[j].id = calls[f[j]].id
                              /\ last.ops[j].doc =
                                    <<tool_to_genui_map[calls[f[j]].name].component_name>>

\* the hook leaves the messages, the ledger and the stores as they were
C24_NoStateUpdate ==
    [][last'.hook = "after_model"
          => UNCHANGED <<history, processed_tool_calls, stores>>]_vars

(* C24: GenUIMiddleware.after_model pushes UI messages only when the      *)
(* history is non-empty and ends with an assistant message: exactly one   *)
(* per tool call of that message whose tool is in the tool-to-component   *)
(* map, in tool-call order, carrying the mapped component name and the    *)
(* call's id; unmapped tools and calls of earlier messages push nothing,  *)
(* and the hook returns no state update.                                  *)
C24_GenUIPushes ==
    []C24_PushesForLastMessage /\ C24_NoStateUpdate

\* the last message carries a mapped and an unmapped call: one push
C24_Witness ==
    /\ last.hook = "after_model"
    /\ history # << >>
    /\ history[Len(history)].type = "ai"
    /\ Len(history[Len(history)].tool_calls) = 2
    /\ Len(last.ops) = 1
    /\ last.ops[1].doc = <<"question">>

====
